---- MODULE Spec2Model ----
(***************************************************************************)
(* Model of src/controllers/adminController.js (evolution-backend): the    *)
(* user store as the controller's handlers read and write it, one action   *)
(* per handler, each handler executed atomically; the last section splits  *)
(* the handlers at their writes and interleaves them.                      *)
(*                                                                         *)
(* A user's id is its position in `users` (documents are never removed).   *)
(* An optional request field is a sequence of length at most one: <<>> is  *)
(* "field absent", <<v>> is "field present with value v".                  *)
(*                                                                         *)
(* creadoPor and ultimaModificacion.usuario are references the handlers    *)
(* write and never read back to decide anything: they are history of the   *)
(* store.  `auditoria` says whether a behaviour keeps them; it is fixed by *)
(* the initial state, and the specifications whose claims do not concern   *)
(* the audit references start with it FALSE.                               *)
(*                                                                         *)
(* `enVuelo` holds the requests that have read the store and not yet       *)
(* written to it; it is empty wherever handlers run atomically.            *)
(***************************************************************************)
EXTENDS Integers, Sequences, FiniteSets, TLC

VARIABLES users, res, auditoria, enVuelo

vars == <<users, res, auditoria, enVuelo>>

(***************************************************************************)
(* Bounds of the model.                                                    *)
(***************************************************************************)
MaxUsers == 3
NumLocales == 3
MaxLocalesLen == 2

(***************************************************************************)
(* Program constants and value domains.                                    *)
(***************************************************************************)
MAX_SUPER_ADMINS == 4

NoLocal == 0

Roles == {"usuario", "admin", "superAdmin"}

Locales == 1..NumLocales

LocalExiste(l) == l \in Locales

Opt(S) == {<<>>} \cup {<<x>> : x \in S}

Range(s) == {s[i] : i \in 1..Len(s)}

SeqsUpTo(S, n) == UNION {[1..k -> S] : k \in 0..n}

Ids == 1..Len(users)

(***************************************************************************)
(* Array helpers of the handlers.                                          *)
(***************************************************************************)
Includes(s, x) == \E i \in 1..Len(s) : s[i] = x

First(s) == IF Len(s) = 0 THEN NoLocal ELSE s[1]

RECURSIVE FilterOut(_, _)
FilterOut(s, x) ==
  IF s = <<>> THEN <<>>
  ELSE IF Head(s) = x THEN FilterOut(Tail(s), x)
       ELSE <<Head(s)>> \o FilterOut(Tail(s), x)

Push(s, x) == Append(s, x)

SharesLocal(s1, s2) == \E i \in 1..Len(s1) : \E j \in 1..Len(s2) : s1[i] = s2[j]

(***************************************************************************)
(* Store queries (User.countDocuments with the handlers' filters).  A      *)
(* query matches inactive documents too unless its filter names activo.    *)
(***************************************************************************)
SuperAdminsCount == Cardinality({i \in Ids : users[i].role = "superAdmin"})

ActiveSuperAdminsCount ==
  Cardinality({i \in Ids : users[i].role = "superAdmin" /\ users[i].activo})

AdminsCountLocales(l) ==
  Cardinality({i \in Ids : /\ users[i].role = "admin"
                           /\ Includes(users[i].locales, l)
                           /\ users[i].activo})

AdminsCountLocal(l) ==
  Cardinality({i \in Ids : /\ users[i].role = "admin"
                           /\ users[i].local = l
                           /\ users[i].activo})

(***************************************************************************)
(* Guards of the handlers.                                                 *)
(***************************************************************************)
SuperAdminLimitReached_OffByOne(count) == count > MAX_SUPER_ADMINS

SuperAdminLimitReached(count) == count >= MAX_SUPER_ADMINS

LastActiveSuperAdmin_OffByOne(count) == count < 1

LastActiveSuperAdmin(count) == count <= 1

LastAdminOfLocal_OffByOne(count) == count < 1

LastAdminOfLocal(count) == count <= 1

DeleteAdminGuardApplies(u) == u.role = "admin" /\ u.local # NoLocal

ToggleAdminGuardApplies_FirstOnly(u, activo) ==
  u.role = "admin" /\ Len(u.locales) = 1 /\ ~activo

ToggleAdminGuardApplies(u, activo) ==
  u.role = "admin" /\ Len(u.locales) > 0 /\ ~activo

OnlyLocalAssigned_Never(locales) == Len(locales) = 0

OnlyLocalAssigned(locales) == Len(locales) = 1

(***************************************************************************)
(* The request-handling layer in front of the controller: the actor is an  *)
(* authenticated, active user of role admin or superAdmin.                 *)
(***************************************************************************)
Actores ==
  {i \in Ids : users[i].activo /\ users[i].role \in {"admin", "superAdmin"}}

(* Besides req.userId, which they only store in the audit references, the  *)
(* handlers read of the actor req.userRole and req.user.locales: one actor *)
(* stands for all actors of the same role and locations.                   *)
Representantes ==
  {a \in Actores :
     \A b \in Actores :
       (users[b].role = users[a].role /\ users[b].locales = users[a].locales)
         => a <= b}

(* User.puedeAdministrar: an admin manages usuario-role users that share   *)
(* one of its locations.                                                   *)
puedeAdministrar(actor, user) ==
  /\ actor.role = "admin"
  /\ user.role = "usuario"
  /\ SharesLocal(user.locales, actor.locales)

(* A field that is undefined.                                              *)
NoValue == 0

(* A document as User.create stores it, schema defaults filled in.         *)
NewUser(email, password, role, locales, principal) ==
  [email |-> email, password |-> password, intentosFallidos |-> 0,
   bloqueadoHasta |-> NoValue, passwordResetToken |-> NoValue,
   passwordResetExpires |-> NoValue, role |-> role, locales |-> locales,
   localPrincipal |-> principal,
   activo |-> TRUE, enLinea |-> FALSE, esAdministradorLocal |-> FALSE,
   local |-> NoLocal, creadoPor |-> <<>>, ultimaModificacion |-> <<>>]

(* ultimaModificacion = { usuario: req.userId, fecha: Date.now() }: the    *)
(* usuario is kept, the fecha is not.                                      *)
Modificado(user, a) ==
  IF auditoria THEN [user EXCEPT !.ultimaModificacion = <<a>>] ELSE user

(* creadoPor: req.userId.                                                  *)
Creado(user, a) ==
  IF auditoria THEN [user EXCEPT !.creadoPor = <<a>>] ELSE user

(* User.crearSuperAdminInicial: the first superAdmin.                      *)
crearSuperAdminInicial(email, password) ==
  NewUser(email, password, "superAdmin", <<>>, NoLocal)

(* The body of an answer that carries no list.                             *)
NoData == [users |-> <<>>, total |-> 0, page |-> 0, limit |-> 0, pages |-> 0]

Respond(u, op, status) ==
  [users |-> u, res |-> [op |-> op, status |-> status, data |-> NoData]]

(* User.findOne({ email }).                                                *)
EmailRegistered_Never(email) == FALSE

EmailRegistered(email) == \E i \in Ids : users[i].email = email

(* The unique index on email: a write that would give document t (0 for a  *)
(* new document) the email of another document fails.                      *)
UniqueEmailRejects(t, email) ==
  \E i \in Ids : i # t /\ users[i].email = email

(***************************************************************************)
(* createUser.  body = [email, password, role, locales], role and locales  *)
(* optional.                                                               *)
(***************************************************************************)
HasLocales(optLocales) == optLocales # <<>> /\ Len(optLocales[1]) > 0

createUser(a, body) ==
  LET actor == users[a]
      role == body.role
      locales == body.locales
      newRole == IF role = <<>> THEN "usuario" ELSE role[1]
      userData ==
        IF HasLocales(locales)
        THEN NewUser(body.email, body.password, newRole, locales[1],
                     locales[1][1])
        ELSE NewUser(body.email, body.password, newRole, <<>>, NoLocal)
      creado == Modificado(Creado(userData, a), a)
      newUser ==
        IF creado.role = "admin" /\ Len(creado.locales) > 0
        THEN [creado EXCEPT !.esAdministradorLocal = TRUE]
        ELSE creado
  IN IF role = <<"superAdmin">> /\ SuperAdminLimitReached(SuperAdminsCount)
     THEN Respond(users, "createUser", 400)
     ELSE IF actor.role = "admin" /\ role # <<>> /\ role[1] # "usuario"
     THEN Respond(users, "createUser", 403)
     ELSE IF /\ actor.role = "admin"
             /\ HasLocales(locales)
             /\ ~ \A i \in 1..Len(locales[1]) : Includes(actor.locales, locales[1][i])
     THEN Respond(users, "createUser", 403)
     ELSE IF /\ actor.role = "superAdmin"
             /\ HasLocales(locales)
             /\ \E i \in 1..Len(locales[1]) : ~LocalExiste(locales[1][i])
     THEN Respond(users, "createUser", 404)
     ELSE IF EmailRegistered(body.email)
     THEN Respond(users, "createUser", 400)
     ELSE IF UniqueEmailRejects(0, body.email)
     THEN Respond(users, "createUser", 500)
     ELSE Respond(Append(users, newUser), "createUser", 201)

CreateUser(a, body) ==
  /\ a \in Actores
  /\ LET r == createUser(a, body)
     IN /\ users' = r.users /\ res' = r.res
        /\ UNCHANGED <<auditoria, enVuelo>>

(***************************************************************************)
(* initSuperAdmin.  body = [email, password].                              *)
(***************************************************************************)
initSuperAdmin(body) ==
  IF SuperAdminLimitReached(SuperAdminsCount)
  THEN Respond(users, "initSuperAdmin", 400)
  ELSE IF UniqueEmailRejects(0, body.email)
  THEN Respond(users, "initSuperAdmin", 500)
  ELSE IF SuperAdminsCount = 0
  THEN Respond(Append(users, crearSuperAdminInicial(body.email, body.password)),
               "initSuperAdmin", 201)
  ELSE Respond(Append(users, NewUser(body.email, body.password, "superAdmin",
                                     <<>>, NoLocal)),
               "initSuperAdmin", 201)

InitSuperAdmin(body) ==
  LET r == initSuperAdmin(body)
  IN /\ users' = r.users /\ res' = r.res
        /\ UNCHANGED <<auditoria, enVuelo>>

(***************************************************************************)
(* updateUser.  p = [email, role, locales, localPrincipal, activo,         *)
(* enLinea, password, intentosFallidos, bloqueadoHasta,                    *)
(* passwordResetToken, passwordResetExpires], all optional; t may name no  *)
(* document.                                                               *)
(***************************************************************************)
StripCredentials_KeepsPassword(p) ==
  [p EXCEPT !.intentosFallidos = <<>>, !.bloqueadoHasta = <<>>,
            !.passwordResetToken = <<>>, !.passwordResetExpires = <<>>]

StripCredentials(p) ==
  [p EXCEPT !.password = <<>>, !.intentosFallidos = <<>>,
            !.bloqueadoHasta = <<>>, !.passwordResetToken = <<>>,
            !.passwordResetExpires = <<>>]

StripForAdmin_RoleOnly(p) == [p EXCEPT !.role = <<>>]

StripForAdmin(p) ==
  [p EXCEPT !.role = <<>>, !.locales = <<>>, !.localPrincipal = <<>>]

PromotionNeedsLocal(p, user) ==
  /\ p.role = <<"admin">>
  /\ ~HasLocales(p.locales)
  /\ Len(user.locales) = 0

MarksAdministradorLocal(p, user) ==
  /\ p.role = <<"admin">>
  /\ (HasLocales(p.locales) \/ Len(user.locales) > 0)

SetFields(user, p, esAdmin, principal) ==
  [email |-> IF p.email # <<>> THEN p.email[1] ELSE user.email,
   password |-> IF p.password # <<>> THEN p.password[1] ELSE user.password,
   intentosFallidos |-> IF p.intentosFallidos # <<>>
                        THEN p.intentosFallidos[1] ELSE user.intentosFallidos,
   bloqueadoHasta |-> IF p.bloqueadoHasta # <<>>
                      THEN p.bloqueadoHasta[1] ELSE user.bloqueadoHasta,
   passwordResetToken |-> IF p.passwordResetToken # <<>>
                          THEN p.passwordResetToken[1]
                          ELSE user.passwordResetToken,
   passwordResetExpires |-> IF p.passwordResetExpires # <<>>
                            THEN p.passwordResetExpires[1]
                            ELSE user.passwordResetExpires,
   role |-> IF p.role # <<>> THEN p.role[1] ELSE user.role,
   locales |-> IF p.locales # <<>> THEN p.locales[1] ELSE user.locales,
   localPrincipal |-> IF principal # <<>> THEN principal[1]
                      ELSE user.localPrincipal,
   activo |-> IF p.activo # <<>> THEN p.activo[1] ELSE user.activo,
   enLinea |-> IF p.enLinea # <<>> THEN p.enLinea[1] ELSE user.enLinea,
   esAdministradorLocal |-> IF esAdmin THEN TRUE ELSE user.esAdministradorLocal,
   local |-> user.local,
   creadoPor |-> IF p.creadoPor # <<>> THEN p.creadoPor ELSE user.creadoPor,
   ultimaModificacion |-> user.ultimaModificacion]

updateUser(a, t, p0) ==
  LET actor == users[a]
      p == StripCredentials(IF actor.role = "admin" THEN StripForAdmin(p0)
                            ELSE p0)
      principal == IF HasLocales(p.locales) THEN <<p.locales[1][1]>>
                   ELSE p.localPrincipal
  IN IF p0.role = <<"superAdmin">> /\ t \notin Ids
     THEN Respond(users, "updateUser", 500)
     ELSE IF /\ p0.role = <<"superAdmin">>
             /\ users[t].role # "superAdmin"
             /\ SuperAdminLimitReached(SuperAdminsCount)
     THEN Respond(users, "updateUser", 400)
     ELSE IF t \notin Ids
     THEN Respond(users, "updateUser", 404)
     ELSE IF actor.role = "admin" /\ ~puedeAdministrar(actor, users[t])
     THEN Respond(users, "updateUser", 403)
     ELSE IF actor.role = "superAdmin" /\ PromotionNeedsLocal(p, users[t])
     THEN Respond(users, "updateUser", 400)
     ELSE IF /\ actor.role = "superAdmin"
             /\ p.locales # <<>>
             /\ \E i \in 1..Len(p.locales[1]) : ~LocalExiste(p.locales[1][i])
     THEN Respond(users, "updateUser", 404)
     ELSE IF p.role = <<"superAdmin">> /\ actor.role # "superAdmin"
     THEN Respond(users, "updateUser", 403)
     ELSE IF users[t].role = "superAdmin" /\ actor.role # "superAdmin"
     THEN Respond(users, "updateUser", 403)
     ELSE IF p.email # <<>> /\ UniqueEmailRejects(t, p.email[1])
     THEN Respond(users, "updateUser", 500)
     ELSE Respond(
            [users EXCEPT ![t] =
               Modificado(SetFields(users[t], p,
                                    MarksAdministradorLocal(p, users[t]),
                                    principal), a)],
            "updateUser", 200)

UpdateUser(a, t, p) ==
  /\ a \in Actores
  /\ LET r == updateUser(a, t, p)
     IN /\ users' = r.users /\ res' = r.res
        /\ UNCHANGED <<auditoria, enVuelo>>

(***************************************************************************)
(* deleteUser (soft delete).                                               *)
(***************************************************************************)
SoftDelete(user) == [user EXCEPT !.activo = FALSE, !.enLinea = FALSE]

deleteUser_NoRoleCheck(a, t) ==
  IF t \notin Ids
  THEN Respond(users, "deleteUser", 404)
  ELSE IF /\ users[t].role = "superAdmin"
          /\ LastActiveSuperAdmin(ActiveSuperAdminsCount)
  THEN Respond(users, "deleteUser", 400)
  ELSE Respond([users EXCEPT ![t] = Modificado(SoftDelete(users[t]), a)],
               "deleteUser", 200)

deleteUser(a, t) ==
  IF users[a].role # "superAdmin"
  THEN Respond(users, "deleteUser", 403)
  ELSE IF t \notin Ids
  THEN Respond(users, "deleteUser", 404)
  ELSE IF /\ users[t].role = "superAdmin"
          /\ LastActiveSuperAdmin(ActiveSuperAdminsCount)
  THEN Respond(users, "deleteUser", 400)
  ELSE IF /\ DeleteAdminGuardApplies(users[t])
          /\ LastAdminOfLocal(AdminsCountLocal(users[t].local))
  THEN Respond(users, "deleteUser", 400)
  ELSE Respond([users EXCEPT ![t] = Modificado(SoftDelete(users[t]), a)],
               "deleteUser", 200)

DeleteUser(a, t) ==
  /\ a \in Actores
  /\ LET r == deleteUser(a, t)
     IN /\ users' = r.users /\ res' = r.res
        /\ UNCHANGED <<auditoria, enVuelo>>

(***************************************************************************)
(* toggleUserStatus.                                                       *)
(***************************************************************************)
SetStatus(user, activo) ==
  [user EXCEPT !.activo = activo,
               !.enLinea = IF ~activo THEN FALSE ELSE user.enLinea]

toggleUserStatus(a, t, activo) ==
  LET actor == users[a]
  IN IF t \notin Ids
     THEN Respond(users, "toggleUserStatus", 404)
     ELSE IF /\ actor.role = "admin"
             /\ users[t].role \in {"superAdmin", "admin"}
     THEN Respond(users, "toggleUserStatus", 403)
     ELSE IF /\ actor.role = "admin"
             /\ ~SharesLocal(users[t].locales, actor.locales)
     THEN Respond(users, "toggleUserStatus", 403)
     ELSE IF /\ users[t].role = "superAdmin"
             /\ ~activo
             /\ LastActiveSuperAdmin(ActiveSuperAdminsCount)
     THEN Respond(users, "toggleUserStatus", 400)
     ELSE IF /\ ToggleAdminGuardApplies(users[t], activo)
             /\ \E i \in 1..Len(users[t].locales) :
                  LastAdminOfLocal(AdminsCountLocales(users[t].locales[i]))
     THEN Respond(users, "toggleUserStatus", 400)
     ELSE Respond([users EXCEPT ![t] =
                     Modificado(SetStatus(users[t], activo), a)],
                  "toggleUserStatus", 200)

ToggleUserStatus(a, t, activo) ==
  /\ a \in Actores
  /\ LET r == toggleUserStatus(a, t, activo)
     IN /\ users' = r.users /\ res' = r.res
        /\ UNCHANGED <<auditoria, enVuelo>>

(***************************************************************************)
(* resetUserPassword.  The target is loaded with locales populated and the *)
(* handler compares local._id.toString() with adminLocal.toString().       *)
(***************************************************************************)
ResetPassword(user, newPassword) ==
  [user EXCEPT !.password = newPassword,
               !.intentosFallidos = 0,
               !.bloqueadoHasta = NoValue]

resetUserPassword_NoRoleCheck(a, t, newPassword) ==
  LET actor == users[a]
  IN IF t \notin Ids
     THEN Respond(users, "resetUserPassword", 404)
     ELSE IF /\ actor.role = "admin"
             /\ ~SharesLocal(users[t].locales, actor.locales)
     THEN Respond(users, "resetUserPassword", 403)
     ELSE Respond([users EXCEPT ![t] =
                     Modificado(ResetPassword(users[t], newPassword), a)],
                  "resetUserPassword", 200)

resetUserPassword(a, t, newPassword) ==
  LET actor == users[a]
  IN IF t \notin Ids
     THEN Respond(users, "resetUserPassword", 404)
     ELSE IF /\ actor.role = "admin"
             /\ users[t].role \in {"superAdmin", "admin"}
     THEN Respond(users, "resetUserPassword", 403)
     ELSE IF /\ actor.role = "admin"
             /\ ~SharesLocal(users[t].locales, actor.locales)
     THEN Respond(users, "resetUserPassword", 403)
     ELSE Respond([users EXCEPT ![t] =
                     Modificado(ResetPassword(users[t], newPassword), a)],
                  "resetUserPassword", 200)

ResetUserPassword(a, t, newPassword) ==
  /\ a \in Actores
  /\ LET r == resetUserPassword(a, t, newPassword)
     IN /\ users' = r.users /\ res' = r.res
        /\ UNCHANGED <<auditoria, enVuelo>>

(***************************************************************************)
(* assignLocalToAdmin, removeLocalFromAdmin, setAdminPrimaryLocal.         *)
(* localId = NoLocal is a request without localId.                         *)
(***************************************************************************)
IsAdmin(t) == t \in Ids /\ users[t].role = "admin"

AssignLocal(admin, localId) ==
  LET locales == Push(admin.locales, localId)
  IN [admin EXCEPT !.locales = locales,
                   !.localPrincipal = IF Len(locales) = 1 THEN localId
                                      ELSE admin.localPrincipal]

assignLocalToAdmin(t, localId) ==
  IF localId = NoLocal
  THEN Respond(users, "assignLocalToAdmin", 400)
  ELSE IF ~IsAdmin(t)
  THEN Respond(users, "assignLocalToAdmin", 404)
  ELSE IF ~LocalExiste(localId)
  THEN Respond(users, "assignLocalToAdmin", 404)
  ELSE IF Includes(users[t].locales, localId)
  THEN Respond(users, "assignLocalToAdmin", 400)
  ELSE Respond([users EXCEPT ![t] = AssignLocal(users[t], localId)],
               "assignLocalToAdmin", 200)

AssignLocalToAdmin(t, localId) ==
  LET r == assignLocalToAdmin(t, localId)
  IN /\ users' = r.users /\ res' = r.res
        /\ UNCHANGED <<auditoria, enVuelo>>

RemoveLocal_StalePrincipal(admin, localId) ==
  [admin EXCEPT !.locales = FilterOut(admin.locales, localId)]

RemoveLocal(admin, localId) ==
  LET locales == FilterOut(admin.locales, localId)
  IN [admin EXCEPT !.locales = locales,
                   !.localPrincipal =
                      IF admin.localPrincipal # NoLocal
                         /\ admin.localPrincipal = localId
                      THEN First(locales)
                      ELSE admin.localPrincipal]

removeLocalFromAdmin(t, localId) ==
  IF ~IsAdmin(t)
  THEN Respond(users, "removeLocalFromAdmin", 404)
  ELSE IF ~Includes(users[t].locales, localId)
  THEN Respond(users, "removeLocalFromAdmin", 400)
  ELSE IF OnlyLocalAssigned(users[t].locales)
  THEN Respond(users, "removeLocalFromAdmin", 400)
  ELSE Respond([users EXCEPT ![t] = RemoveLocal(users[t], localId)],
               "removeLocalFromAdmin", 200)

RemoveLocalFromAdmin(t, localId) ==
  LET r == removeLocalFromAdmin(t, localId)
  IN /\ users' = r.users /\ res' = r.res
        /\ UNCHANGED <<auditoria, enVuelo>>

setAdminPrimaryLocal_NoMembershipCheck(t, localId) ==
  IF ~IsAdmin(t)
  THEN Respond(users, "setAdminPrimaryLocal", 404)
  ELSE Respond([users EXCEPT ![t].localPrincipal = localId],
               "setAdminPrimaryLocal", 200)

setAdminPrimaryLocal(t, localId) ==
  IF ~IsAdmin(t)
  THEN Respond(users, "setAdminPrimaryLocal", 404)
  ELSE IF ~Includes(users[t].locales, localId)
  THEN Respond(users, "setAdminPrimaryLocal", 400)
  ELSE Respond([users EXCEPT ![t].localPrincipal = localId],
               "setAdminPrimaryLocal", 200)

SetAdminPrimaryLocal(t, localId) ==
  LET r == setAdminPrimaryLocal(t, localId)
  IN /\ users' = r.users /\ res' = r.res
        /\ UNCHANGED <<auditoria, enVuelo>>

(***************************************************************************)
(* getUserById.  The target is loaded with locales populated: each element *)
(* is a Local document.  The handler compares local.toString() of those    *)
(* documents with adminLocal.toString() of the actor's location ids.       *)
(***************************************************************************)
(* ObjectId.prototype.toString: the hexadecimal text of the id.            *)
ObjectIdToString(id) == <<"hex", id>>

(* Document.prototype.toString: the inspected text of the document.        *)
DocumentToString(doc) == <<"inspect", doc._id>>

(* populate('locales'): the Local documents of the stored ids.             *)
Populate(locales) ==
  [i \in 1..Len(locales) |-> [_id |-> locales[i]]]

tienePermisos(user, actorLocales) ==
  LET locales == Populate(user.locales)
  IN \E i \in 1..Len(locales) : \E j \in 1..Len(actorLocales) :
       ObjectIdToString(actorLocales[j]) = DocumentToString(locales[i])

getUserById(a, t) ==
  LET actor == users[a]
  IN IF t \notin Ids
     THEN Respond(users, "getUserById", 404)
     ELSE IF actor.role = "admin" /\ users[t].role = "superAdmin"
     THEN Respond(users, "getUserById", 403)
     ELSE IF actor.role = "admin" /\ ~tienePermisos(users[t], actor.locales)
     THEN Respond(users, "getUserById", 403)
     ELSE [users |-> users,
           res |-> [op |-> "getUserById", status |-> 200,
                    data |-> [NoData EXCEPT !.users = <<t>>]]]

GetUserById(a, t) ==
  /\ a \in Actores
  /\ LET r == getUserById(a, t)
     IN /\ users' = r.users /\ res' = r.res
        /\ UNCHANGED <<auditoria, enVuelo>>

(***************************************************************************)
(* getAllUsers.  q = [page, limit, role, activo, search, local], all       *)
(* optional.  A filter is <<>> when not set, else <<operator, operand>>.   *)
(* search stands for a text that matches the email of the same number.     *)
(***************************************************************************)
(* parseInt(x) || d                                                        *)
ParseIntOr(opt, d) == IF opt = <<>> \/ opt[1] = 0 THEN d ELSE opt[1]

RoleFilter_QueryWins(actor, q) ==
  IF q.role # <<>> THEN <<"eq", q.role[1]>>
  ELSE IF actor.role = "admin" THEN <<"ne", "superAdmin">>
  ELSE <<>>

RoleFilter(actor, q) ==
  IF actor.role = "admin" THEN <<"ne", "superAdmin">>
  ELSE IF q.role # <<>> THEN <<"eq", q.role[1]>>
  ELSE <<>>

LocalesFilter(actor, q) ==
  IF actor.role = "admin" /\ Len(actor.locales) > 0
  THEN <<"in", actor.locales>>
  ELSE IF q.local # <<>> THEN <<"eq", q.local[1]>>
  ELSE <<>>

Filters(actor, q) ==
  [role |-> RoleFilter(actor, q),
   activo |-> q.activo,
   search |-> q.search,
   locales |-> LocalesFilter(actor, q)]

Matches(u, f) ==
  /\ f.role # <<>> =>
       IF f.role[1] = "eq" THEN u.role = f.role[2] ELSE u.role # f.role[2]
  /\ f.activo # <<>> => u.activo = f.activo[1]
  /\ f.search # <<>> => u.email = f.search[1]
  /\ f.locales # <<>> =>
       IF f.locales[1] = "eq" THEN Includes(u.locales, f.locales[2])
       ELSE SharesLocal(u.locales, f.locales[2])

(* find(filters).sort({ createdAt: -1 }) over the first n documents.       *)
RECURSIVE FindSorted(_, _)
FindSorted(f, n) ==
  IF n = 0 THEN <<>>
  ELSE (IF Matches(users[n], f) THEN <<n>> ELSE <<>>) \o FindSorted(f, n - 1)

SkipLimit(s, skip, limit) ==
  SubSeq(s, skip + 1, IF skip + limit < Len(s) THEN skip + limit ELSE Len(s))

Ceil_Floor(total, limit) == total \div limit

(* Math.ceil(total / limit)                                                *)
Ceil(total, limit) == (total + limit - 1) \div limit

getAllUsers(a, q) ==
  LET page == ParseIntOr(q.page, 1)
      limit == ParseIntOr(q.limit, 10)
      skip == (page - 1) * limit
      filters == Filters(users[a], q)
      found == FindSorted(filters, Len(users))
      total == Len(found)
  IN [users |-> users,
      res |-> [op |-> "getAllUsers", status |-> 200,
               data |-> [users |-> SkipLimit(found, skip, limit),
                         total |-> total, page |-> page, limit |-> limit,
                         pages |-> Ceil(total, limit)]]]

GetAllUsers(a, q) ==
  /\ a \in Actores
  /\ LET r == getAllUsers(a, q)
     IN /\ users' = r.users /\ res' = r.res
        /\ UNCHANGED <<auditoria, enVuelo>>



(***************************************************************************)
(* Initial state: an empty store, no request answered yet.                 *)
(***************************************************************************)
Init ==
  /\ users = <<>>
  /\ res = [op |-> "none", status |-> 0, data |-> NoData]
  /\ auditoria = FALSE
  /\ enVuelo = {}

(* An email no stored document has.                                        *)
FreshEmail == Len(users) + 1

InitBodies == [email : {FreshEmail}, password : {1}]

NoPayload ==
  [email |-> <<>>, role |-> <<>>, locales |-> <<>>, localPrincipal |-> <<>>,
   activo |-> <<>>, enLinea |-> <<>>, password |-> <<>>,
   intentosFallidos |-> <<>>, bloqueadoHasta |-> <<>>,
   passwordResetToken |-> <<>>, passwordResetExpires |-> <<>>,
   creadoPor |-> <<>>]

(***************************************************************************)
(* SpecCap: requests that create users and change roles and status, with   *)
(* room for more users than MAX_SUPER_ADMINS.  Roles are usuario and       *)
(* superAdmin; no request names a location.                                *)
(***************************************************************************)
CapExtraUsers == 1

MaxUsersCap == MAX_SUPER_ADMINS + CapExtraUsers

CapRoles == {"usuario", "superAdmin"}

CapBodies == [email : {FreshEmail}, password : {1}, role : Opt(CapRoles), locales : {<<>>}]

CapPayloads == {[NoPayload EXCEPT !.role = r] : r \in Opt(CapRoles)}

CapTargets == 1..(Len(users) + 1)

NextCap ==
  \/ Len(users) < MaxUsersCap /\ \E b \in InitBodies : InitSuperAdmin(b)
  \/ /\ Len(users) < MaxUsersCap
     /\ \E a \in Representantes : \E b \in CapBodies : CreateUser(a, b)
  \/ \E a \in Representantes : \E t \in CapTargets : \E p \in CapPayloads :
       UpdateUser(a, t, p)
  \/ \E a \in Representantes : \E t \in CapTargets : DeleteUser(a, t)
  \/ \E a \in Representantes : \E t \in CapTargets : \E b \in BOOLEAN :
       ToggleUserStatus(a, t, b)

SpecCap == Init /\ [][NextCap]_vars

(* C1: at most MAX_SUPER_ADMINS users hold role superAdmin (active or not) *)
(* in every reachable state, and a createUser, initSuperAdmin or promoting *)
(* updateUser attempted while MAX_SUPER_ADMINS superAdmins exist answers   *)
(* 400 and leaves the store unchanged.                                     *)
C1_SuperAdminCap ==
  /\ [](SuperAdminsCount <= MAX_SUPER_ADMINS)
  /\ [][SuperAdminsCount = MAX_SUPER_ADMINS =>
          /\ \A a \in Ids : \A b \in CapBodies :
               b.role = <<"superAdmin">> /\ CreateUser(a, b)
                 => res'.status = 400 /\ users' = users
          /\ (\E b \in InitBodies : InitSuperAdmin(b))
             => res'.status = 400 /\ users' = users
          /\ \A a \in Ids : \A t \in Ids : \A p \in CapPayloads :
               /\ p.role = <<"superAdmin">>
               /\ users[t].role # "superAdmin"
               /\ UpdateUser(a, t, p)
               => res'.status = 400 /\ users' = users]_vars

C1_Witness ==
  /\ SuperAdminsCount = MAX_SUPER_ADMINS
  /\ Len(users) > MAX_SUPER_ADMINS
  /\ \E i \in Ids : users[i].role = "superAdmin" /\ ~users[i].activo
  /\ res.op \in {"createUser", "updateUser", "initSuperAdmin"}
  /\ res.status = 400


(***************************************************************************)
(* SpecSuperAdmin: superAdmins and usuarios without locations; requests    *)
(* that create them and change activo and enLinea.                         *)
(***************************************************************************)
SaBodies ==
  [email : {FreshEmail}, password : {1}, role : {<<>>, <<"superAdmin">>}, locales : {<<>>}]

SaPayloads ==
  {[NoPayload EXCEPT !.activo = <<b>>] : b \in BOOLEAN}
    \cup {[NoPayload EXCEPT !.enLinea = <<b>>] : b \in BOOLEAN}

NextSuperAdmin ==
  \/ Len(users) < MaxUsers /\ \E b \in InitBodies : InitSuperAdmin(b)
  \/ /\ Len(users) < MaxUsers
     /\ \E a \in Representantes : \E b \in SaBodies : CreateUser(a, b)
  \/ \E a \in Representantes : \E t \in Ids : \E p \in SaPayloads :
       UpdateUser(a, t, p)
  \/ \E a \in Representantes : \E t \in Ids : DeleteUser(a, t)
  \/ \E a \in Representantes : \E t \in Ids : \E b \in BOOLEAN :
       ToggleUserStatus(a, t, b)

SpecSuperAdmin == Init /\ [][NextSuperAdmin]_vars

ActiveSuperAdmins ==
  {i \in Ids : users[i].role = "superAdmin" /\ users[i].activo}

Deactivated(t) ==
  [users EXCEPT ![t].activo = FALSE, ![t].enLinea = FALSE]

(* C2: once an active superAdmin exists, every later state holds at least  *)
(* one user of role superAdmin with activo = TRUE.                         *)
C2_ActiveSuperAdminKept ==
  [][ActiveSuperAdmins # {} => ActiveSuperAdmins' # {}]_vars

(* C4: deleteUser and toggleUserStatus(activo = false) by a superAdmin on  *)
(* a superAdmin succeed iff at least 2 active superAdmins exist before the *)
(* request; otherwise they answer 400 and the store is unchanged.          *)
C4_SuperAdminDeactivation ==
  [][\A a \in Ids : \A t \in Ids :
       /\ users[a].role = "superAdmin"
       /\ users[t].role = "superAdmin"
       /\ (DeleteUser(a, t) \/ ToggleUserStatus(a, t, FALSE))
       => IF Cardinality(ActiveSuperAdmins) >= 2
          THEN res'.status = 200 /\ users' = Deactivated(t)
          ELSE res'.status = 400 /\ users' = users]_vars

C4_Witness ==
  /\ res.op \in {"deleteUser", "toggleUserStatus"}
  /\ res.status = 400
  /\ Cardinality(ActiveSuperAdmins) = 1
  /\ SuperAdminsCount >= 2
  /\ \E i \in ActiveSuperAdmins : users[i].enLinea


(***************************************************************************)
(* SpecAdminStatus: superAdmins, and admins created on locations 1 and 2;  *)
(* requests that deactivate, reactivate and soft-delete them.              *)
(***************************************************************************)
StatusLocales == {<<1>>, <<2>>, <<1, 2>>, <<2, 1>>}

StatusBodies ==
  [email : {FreshEmail}, password : {1}, role : {<<"admin">>},
   locales : {<<s>> : s \in StatusLocales}]

StatusPayloads == {[NoPayload EXCEPT !.activo = <<b>>] : b \in BOOLEAN}

NextAdminStatus ==
  \/ Len(users) < MaxUsers /\ \E b \in InitBodies : InitSuperAdmin(b)
  \/ /\ Len(users) < MaxUsers
     /\ \E a \in Representantes : \E b \in StatusBodies : CreateUser(a, b)
  \/ \E a \in Representantes : \E t \in Ids : \E p \in StatusPayloads :
       UpdateUser(a, t, p)
  \/ \E a \in Representantes : \E t \in Ids : DeleteUser(a, t)
  \/ \E a \in Representantes : \E t \in Ids : \E b \in BOOLEAN :
       ToggleUserStatus(a, t, b)

SpecAdminStatus == Init /\ [][NextAdminStatus]_vars

AdminsAt(l) ==
  {i \in Ids : users[i].role = "admin" /\ l \in Range(users[i].locales)}

ActiveAdminsAt(l) == {i \in AdminsAt(l) : users[i].activo}

SoleActiveAdminSomewhere(t) ==
  \E l \in Range(users[t].locales) : Cardinality(ActiveAdminsAt(l)) <= 1

(* C3: every location that some admin has in its locales has an admin with *)
(* activo = TRUE in its locales, in every reachable state.                 *)
C3_LocationKeepsActiveAdmin ==
  \A l \in Locales : AdminsAt(l) # {} => ActiveAdminsAt(l) # {}

(* C5: deleteUser by a superAdmin on an admin succeeds iff every location  *)
(* of the admin has at least 2 active admins before the request; when the  *)
(* admin is the only active admin of one of them the request is rejected   *)
(* and the admin stays active.                                             *)
C5_DeleteAdminGuarded ==
  [][\A a \in Ids : \A t \in Ids :
       /\ users[a].role = "superAdmin"
       /\ users[t].role = "admin"
       /\ DeleteUser(a, t)
       => IF SoleActiveAdminSomewhere(t)
          THEN res'.status = 400 /\ users' = users
          ELSE res'.status = 200 /\ users' = Deactivated(t)]_vars

(* C6: toggleUserStatus(activo = false) on an admin counts the active      *)
(* admins of every location of the admin on its own and answers 400 when   *)
(* any of them has at most 1; the store is then unchanged.  Otherwise a    *)
(* superAdmin's request deactivates the admin.                             *)
C6_ToggleAdminGuarded ==
  [][\A a \in Ids : \A t \in Ids :
       users[t].role = "admin" /\ ToggleUserStatus(a, t, FALSE)
       => IF users[a].role # "superAdmin"
          THEN res'.status = 403 /\ users' = users
          ELSE IF SoleActiveAdminSomewhere(t)
          THEN res'.status = 400 /\ users' = users
          ELSE res'.status = 200 /\ users' = Deactivated(t)]_vars

(* The admin rejected has two locations; only the second is short of       *)
(* active admins.                                                          *)
C6_Witness ==
  /\ res.op = "toggleUserStatus"
  /\ res.status = 400
  /\ \E t \in Ids :
       /\ users[t].role = "admin"
       /\ users[t].activo
       /\ Len(users[t].locales) = 2
       /\ Cardinality(ActiveAdminsAt(users[t].locales[1])) = 2
       /\ Cardinality(ActiveAdminsAt(users[t].locales[2])) = 1


(***************************************************************************)
(* SpecAssign: the bootstrap superAdmin and one admin, whose locales and   *)
(* localPrincipal are any that createUser and updateUser can have stored;  *)
(* requests that assign, remove and designate its locations.  Request      *)
(* location NumLocales + 1 names no stored location, NoLocal is a request  *)
(* without localId.                                                        *)
(***************************************************************************)
StoredAdmin(locales, principal) ==
  [NewUser(2, 1, "admin", locales, principal)
     EXCEPT !.esAdministradorLocal = (locales # <<>>)]

InitAssign ==
  /\ \E s \in SeqsUpTo(Locales, MaxLocalesLen) :
       \E pr \in Locales \cup {NoLocal} :
         /\ s # <<>> => pr # NoLocal
         /\ users = <<crearSuperAdminInicial(1, 1), StoredAdmin(s, pr)>>
  /\ res = [op |-> "none", status |-> 0, data |-> NoData]
  /\ auditoria = FALSE
  /\ enVuelo = {}

ReqLocales == 1..(NumLocales + 1)

NextAssign ==
  \/ \E t \in Ids : \E l \in ReqLocales \cup {NoLocal} : AssignLocalToAdmin(t, l)
  \/ \E t \in Ids : \E l \in ReqLocales : RemoveLocalFromAdmin(t, l)
  \/ \E t \in Ids : \E l \in ReqLocales : SetAdminPrimaryLocal(t, l)

SpecAssign == InitAssign /\ [][NextAssign]_vars

Without(s, l) == SelectSeq(s, LAMBDA x : x # l)

OthersUnchanged(t) ==
  /\ Len(users') = Len(users)
  /\ \A i \in Ids : i # t => users'[i] = users[i]

(* C9: removeLocalFromAdmin on an admin answers 400 and changes nothing    *)
(* when the admin's locales has exactly one element or does not hold the   *)
(* location; assignLocalToAdmin of a stored location X to an admin with no *)
(* locations succeeds and leaves locales = <<X>>, localPrincipal = X (a    *)
(* state in which removing X is the first case).                           *)
C9_RemoveOnlyLocalRejected ==
  [][\A t \in Ids : \A l \in ReqLocales :
       users[t].role = "admin" =>
         /\ /\ RemoveLocalFromAdmin(t, l)
            /\ (Len(users[t].locales) = 1 \/ l \notin Range(users[t].locales))
            => res'.status = 400 /\ users' = users
         /\ /\ AssignLocalToAdmin(t, l)
            /\ users[t].locales = <<>>
            /\ l \in Locales
            => /\ res'.status = 200
               /\ users'[t].locales = <<l>>
               /\ users'[t].localPrincipal = l]_vars

C9_Witness ==
  /\ res.op = "removeLocalFromAdmin"
  /\ res.status = 400
  /\ \E t \in Ids :
       /\ users[t].role = "admin"
       /\ Len(users[t].locales) = 1
       /\ users[t].localPrincipal = users[t].locales[1]

(* C10: a successful assignLocalToAdmin appends the location to locales    *)
(* and sets localPrincipal to it only when locales then has one element;   *)
(* a successful removeLocalFromAdmin keeps the other locations in their    *)
(* order and sets localPrincipal to the first of them iff the removed      *)
(* location was the principal.  Nothing else changes.                      *)
C10_AssignRemovePrincipal ==
  [][\A t \in Ids : \A l \in ReqLocales :
       /\ AssignLocalToAdmin(t, l) /\ res'.status = 200
          => /\ users'[t].locales = users[t].locales \o <<l>>
             /\ users'[t].localPrincipal =
                  IF users[t].locales = <<>> THEN l
                  ELSE users[t].localPrincipal
             /\ OthersUnchanged(t)
       /\ RemoveLocalFromAdmin(t, l) /\ res'.status = 200
          => /\ users'[t].locales = Without(users[t].locales, l)
             /\ users'[t].localPrincipal =
                  IF users[t].localPrincipal # l THEN users[t].localPrincipal
                  ELSE IF users'[t].locales = <<>> THEN NoLocal
                  ELSE users'[t].locales[1]
             /\ OthersUnchanged(t)]_vars

(* After a removal the admin keeps two locations in order and the first    *)
(* remaining one is the principal.                                         *)
C10_Witness ==
  /\ res.op = "removeLocalFromAdmin"
  /\ res.status = 200
  /\ \E t \in Ids :
       /\ users[t].role = "admin"
       /\ Len(users[t].locales) >= 2
       /\ users[t].locales[1] > users[t].locales[2]
       /\ users[t].localPrincipal = users[t].locales[1]

(* C11: setAdminPrimaryLocal on an admin answers 400 and changes nothing   *)
(* when the location is not in the admin's locales; otherwise it answers   *)
(* 200, sets localPrincipal to the location and leaves locales, every      *)
(* other field of the admin and every other user as they were.             *)
C11_SetPrimaryInLocales ==
  [][\A t \in Ids : \A l \in ReqLocales :
       users[t].role = "admin" /\ SetAdminPrimaryLocal(t, l) =>
         IF l \notin Range(users[t].locales)
         THEN res'.status = 400 /\ users' = users
         ELSE /\ res'.status = 200
              /\ users'[t] = [users[t] EXCEPT !.localPrincipal = l]
              /\ users'[t].locales = users[t].locales
              /\ OthersUnchanged(t)]_vars

(* The second of two locations has been made the principal.                *)
C11_Witness ==
  /\ res.op = "setAdminPrimaryLocal"
  /\ res.status = 200
  /\ \E t \in Ids :
       /\ users[t].role = "admin"
       /\ Len(users[t].locales) = 2
       /\ users[t].localPrincipal = users[t].locales[2]
       /\ users[t].locales[1] # users[t].locales[2]



(***************************************************************************)
(* Spec: from the empty store, requests that create users and rewrite      *)
(* role, locales and localPrincipal, and the three assignment requests.    *)
(***************************************************************************)
MaxUsersSpec == 2

ShortLocales == SeqsUpTo(1..2, 1)

Bodies ==
  [email : {FreshEmail}, password : {1}, role : {<<>>, <<"admin">>}, locales : Opt(ShortLocales)]

Payloads ==
  {[NoPayload EXCEPT !.role = <<"admin">>, !.locales = s] : s \in Opt(ShortLocales)}
    \cup {[NoPayload EXCEPT !.locales = <<s>>] : s \in ShortLocales}
    \cup {[NoPayload EXCEPT !.localPrincipal = <<l>>] : l \in 1..2}

Next ==
  \/ Len(users) < MaxUsersSpec /\ \E b \in InitBodies : InitSuperAdmin(b)
  \/ /\ Len(users) < MaxUsersSpec
     /\ \E a \in Representantes : \E b \in Bodies : CreateUser(a, b)
  \/ \E a \in Representantes : \E t \in Ids : \E p \in Payloads :
       UpdateUser(a, t, p)
  \/ \E t \in Ids : \E l \in 1..2 : AssignLocalToAdmin(t, l)
  \/ \E t \in Ids : \E l \in 1..2 : RemoveLocalFromAdmin(t, l)
  \/ \E t \in Ids : \E l \in 1..2 : SetAdminPrimaryLocal(t, l)

Spec == Init /\ [][Next]_vars

(* C7: every user with non-empty locales has localPrincipal among its own  *)
(* locales, in every reachable state.                                      *)
C7_PrincipalInLocales ==
  \A i \in Ids :
    users[i].locales # <<>> => users[i].localPrincipal \in Range(users[i].locales)

(* C8: no user has role admin and an empty locales list, in any reachable  *)
(* state.                                                                  *)
C8_AdminHasLocation ==
  \A i \in Ids : users[i].role = "admin" => users[i].locales # <<>>


(***************************************************************************)
(* SpecView: from the empty store, users of every role with no location or *)
(* one location are created, and actors update or read one user or list    *)
(* users under query filters.                                              *)
(***************************************************************************)
MaxUsersView == 3

ViewBodies ==
  [email : {FreshEmail}, password : {1}, role : Opt(Roles), locales : {<<>>, <<<<1>>>>, <<<<2>>>>}]

ViewPayloads == {[NoPayload EXCEPT !.activo = <<TRUE>>]}

Queries ==
  [page : {<<>>}, limit : {<<>>}, role : Opt(Roles),
   activo : Opt(BOOLEAN), search : {<<>>, <<1>>}, local : {<<>>, <<1>>}]

NextView ==
  \/ Len(users) < MaxUsersView /\ \E b \in InitBodies : InitSuperAdmin(b)
  \/ /\ Len(users) < MaxUsersView
     /\ \E a \in Representantes : \E b \in ViewBodies : CreateUser(a, b)
  \/ \E a \in Representantes : \E t \in Ids : \E p \in ViewPayloads :
       UpdateUser(a, t, p)
  \/ \E a \in Representantes : \E t \in 1..(Len(users) + 1) : GetUserById(a, t)
  \/ \E a \in Representantes : \E q \in Queries : GetAllUsers(a, q)

SpecView == Init /\ [][NextView]_vars

(* C12: for every admin actor, getUserById and updateUser on a target of   *)
(* role admin or superAdmin answer 403 and leave the store unchanged, and  *)
(* getAllUsers returns no user of role admin or superAdmin.                *)
C12_AdminTargetsForbidden ==
  [][\A a \in Ids :
       users[a].role = "admin" =>
         /\ \A t \in Ids :
              users[t].role \in {"admin", "superAdmin"} =>
                /\ GetUserById(a, t) => res'.status = 403 /\ users' = users
                /\ \A p \in ViewPayloads :
                     UpdateUser(a, t, p) => res'.status = 403 /\ users' = users
         /\ \A q \in Queries :
              GetAllUsers(a, q) =>
                \A i \in Range(res'.data.users) :
                  users[i].role \notin {"admin", "superAdmin"}]_vars

(* C13: getUserById on an existing target answers 200 for a superAdmin     *)
(* actor; for an admin actor and a usuario target it answers 200 iff the   *)
(* two locales lists share a location and 403 otherwise.                   *)
C13_GetUserByIdScope ==
  [][\A a \in Ids : \A t \in Ids :
       GetUserById(a, t) =>
         /\ users[a].role = "superAdmin" => res'.status = 200
         /\ users[a].role = "admin" /\ users[t].role = "usuario" =>
              res'.status =
                IF Range(users[a].locales) \cap Range(users[t].locales) # {}
                THEN 200 ELSE 403]_vars

(* C14: in every reachable state, getAllUsers answers any admin actor with *)
(* no user of role superAdmin, whatever the role, activo, search and local *)
(* filters of the query, role = superAdmin included.                       *)
C14_AdminListHidesSuperAdmins ==
  \A a \in Actores :
    users[a].role = "admin" =>
      \A q \in Queries :
        \A i \in Range(getAllUsers(a, q).res.data.users) :
          users[i].role # "superAdmin"

(* An admin asked for role = superAdmin while a superAdmin is stored and   *)
(* was answered with a non-empty list that holds none.                     *)
C14_Witness ==
  /\ res.op = "getAllUsers"
  /\ res.data.users # <<>>
  /\ SuperAdminsCount > 0
  /\ \A i \in Range(res.data.users) : users[i].role # "superAdmin"
  /\ \E a \in Actores : \E q \in Queries :
       /\ users[a].role = "admin"
       /\ q.role = <<"superAdmin">>
       /\ res = getAllUsers(a, q).res


(***************************************************************************)
(* SpecRoles: from the empty store, with room for more users than          *)
(* MAX_SUPER_ADMINS, users of every role are created by superAdmin and     *)
(* admin actors, with no location, an empty selection or one location,     *)
(* and updateUser requests name a role.  The store holds at most           *)
(* MaxUsersCap users; requests are made in every such store.               *)
(***************************************************************************)
RolesBodies ==
  [email : {FreshEmail}, password : {1}, role : {<<"superAdmin">>}, locales : {<<>>}]
    \cup [email : {FreshEmail}, password : {1}, role : {<<>>, <<"usuario">>, <<"admin">>},
          locales : {<<>>, <<<<>>>>, <<<<1>>>>, <<<<2>>>>}]

RolesPayloads ==
  {[NoPayload EXCEPT !.role = <<r>>] : r \in {"admin", "superAdmin"}}

NextRoles ==
  \/ \E b \in InitBodies : InitSuperAdmin(b) /\ Len(users') <= MaxUsersCap
  \/ \E a \in Representantes : \E b \in RolesBodies :
       CreateUser(a, b) /\ Len(users') <= MaxUsersCap
  \/ \E a \in Representantes : \E t \in Ids : \E p \in RolesPayloads :
       UpdateUser(a, t, p)

SpecRoles == Init /\ [][NextRoles]_vars

(* C15: createUser by an admin actor that names a role other than usuario, *)
(* or a location outside the actor's locales, answers 403 and creates no   *)
(* user, whatever the number of superAdmins.                               *)
C15_AdminCreateForbidden ==
  [][\A a \in Actores : \A b \in RolesBodies :
       /\ users[a].role = "admin"
       /\ \/ b.role # <<>> /\ b.role[1] # "usuario"
          \/ /\ b.locales # <<>>
             /\ ~(Range(b.locales[1]) \subseteq Range(users[a].locales))
       /\ CreateUser(a, b)
       => res'.status = 403 /\ users' = users]_vars

(* C16: createUser by an admin actor for a usuario with locales absent or  *)
(* empty answers 201 and stores a user whose locales are the actor's and   *)
(* whose localPrincipal is the first of them.                              *)
C16_AdminCreateDefaultsLocales ==
  [][\A a \in Actores : \A b \in RolesBodies :
       /\ users[a].role = "admin"
       /\ b.role \in {<<>>, <<"usuario">>}
       /\ ~HasLocales(b.locales)
       /\ CreateUser(a, b)
       => /\ res'.status = 201
          /\ Len(users') = Len(users) + 1
          /\ users'[Len(users')].locales = users[a].locales
          /\ users'[Len(users')].localPrincipal = First(users[a].locales)]_vars


(***************************************************************************)
(* SpecEmail: from the empty store, requests that create users and         *)
(* superAdmins and rewrite emails, every email drawn from Emails, so that  *)
(* stored emails are requested again.                                      *)
(***************************************************************************)
NumEmails == 3

Emails == 1..NumEmails

EmailInitBodies == [email : Emails, password : {1}]

EmailBodies ==
  [email : Emails, password : {1}, role : {<<>>, <<"superAdmin">>},
   locales : {<<>>}]

EmailPayloads == {[NoPayload EXCEPT !.email = <<e>>] : e \in Emails}

NextEmail ==
  \/ Len(users) < MaxUsers /\ \E b \in EmailInitBodies : InitSuperAdmin(b)
  \/ /\ Len(users) < MaxUsers
     /\ \E a \in Representantes : \E b \in EmailBodies : CreateUser(a, b)
  \/ \E a \in Representantes : \E t \in Ids : \E p \in EmailPayloads :
       UpdateUser(a, t, p)

SpecEmail == Init /\ [][NextEmail]_vars

AdminUpdateBodies ==
  [email : {FreshEmail}, password : {1}, role : {<<>>, <<"admin">>},
   locales : {<<<<1>>>>, <<<<2>>>>, <<<<1, 2>>>>}]

AdminUpdatePayloads ==
  {[NoPayload EXCEPT !.role = r, !.locales = s, !.localPrincipal = l,
                     !.activo = c, !.enLinea = e] :
     r \in {<<>>, <<"admin">>, <<"superAdmin">>},
     s \in {<<>>, <<<<2>>>>},
     l \in {<<>>, <<2>>},
     c \in {<<>>, <<FALSE>>},
     e \in Opt(BOOLEAN)}

NextAdminUpdate ==
  \/ Len(users) < MaxUsers /\ \E b \in InitBodies : InitSuperAdmin(b)
  \/ /\ Len(users) < MaxUsers
     /\ \E a \in Representantes : \E b \in AdminUpdateBodies : CreateUser(a, b)
  \/ \E a \in Representantes : \E t \in Ids : \E p \in AdminUpdatePayloads :
       users[a].role = "admin" /\ UpdateUser(a, t, p)

SpecAdminUpdate == Init /\ [][NextAdminUpdate]_vars

(* C18: in every reachable state, an updateUser request of an admin actor  *)
(* that answers 200 leaves the target's role, locales and localPrincipal   *)
(* as they were, whatever the payload names, applies the submitted activo  *)
(* and enLinea and changes no other user; an admin with locales <<1>> that *)
(* sends role admin and locales <<2>> for a usuario with locales <<1>> is  *)
(* answered 200.                                                           *)
C18_AdminUpdateStripsRoleAndLocales ==
  \A a \in Actores : \A t \in Ids : \A p \in AdminUpdatePayloads :
    users[a].role = "admin" =>
      LET r == updateUser(a, t, p)
      IN /\ r.res.status = 200 =>
              /\ r.users[t].role = users[t].role
              /\ r.users[t].locales = users[t].locales
              /\ r.users[t].localPrincipal = users[t].localPrincipal
              /\ p.activo # <<>> => r.users[t].activo = p.activo[1]
              /\ p.enLinea # <<>> => r.users[t].enLinea = p.enLinea[1]
              /\ Len(r.users) = Len(users)
              /\ \A i \in Ids : i # t => r.users[i] = users[i]
         /\ /\ users[a].locales = <<1>>
            /\ users[t].role = "usuario"
            /\ users[t].locales = <<1>>
            /\ p.role = <<"admin">>
            /\ p.locales = <<<<2>>>>
            => r.res.status = 200

(* An admin's update was applied to a usuario of its location, which is    *)
(* still a usuario there and now on line.                                  *)
C18_Witness ==
  /\ res.op = "updateUser"
  /\ res.status = 200
  /\ \E a \in Actores : \E t \in Ids :
       /\ users[a].role = "admin"
       /\ users[a].locales = <<1>>
       /\ users[t].role = "usuario"
       /\ users[t].locales = <<1>>
       /\ users[t].localPrincipal = 1
       /\ users[t].enLinea

(* C19: no request of an actor that is not a superAdmin changes the role   *)
(* of a stored user or adds a superAdmin, and initSuperAdmin adds a        *)
(* superAdmin only while none is stored.                                   *)
C19_SuperAdminsMadeBySuperAdmins ==
  [][/\ \A a \in Actores :
          users[a].role # "superAdmin" =>
            /\ \A b \in RolesBodies :
                 CreateUser(a, b) =>
                   \A i \in 1..Len(users') : users'[i].role = "superAdmin" => i \in Ids
            /\ \A t \in Ids : \A p \in RolesPayloads :
                 UpdateUser(a, t, p) =>
                   \A i \in Ids : users'[i].role = users[i].role
     /\ \A b \in InitBodies :
          SuperAdminsCount >= 1 /\ InitSuperAdmin(b) => users' = users]_vars


(***************************************************************************)
(* SpecDelete: from the empty store, admins and usuarios are created, put  *)
(* on line and deleted, by superAdmin and admin actors.                    *)
(***************************************************************************)
DeleteBodies ==
  [email : {FreshEmail}, password : {1}, role : {<<>>, <<"admin">>}, locales : {<<<<1>>>>}]

DeletePayloads == {[NoPayload EXCEPT !.enLinea = <<TRUE>>]}

NextDelete ==
  \/ Len(users) < MaxUsers /\ \E b \in InitBodies : InitSuperAdmin(b)
  \/ /\ Len(users) < MaxUsers
     /\ \E a \in Representantes : \E b \in DeleteBodies : CreateUser(a, b)
  \/ \E a \in Representantes : \E t \in Ids : \E p \in DeletePayloads :
       UpdateUser(a, t, p)
  \/ \E a \in Representantes : \E t \in 1..(Len(users) + 1) : DeleteUser(a, t)

SpecDelete == Init /\ [][NextDelete]_vars

(* C20: in every reachable state a deleteUser request of an actor that is  *)
(* not a superAdmin answers 403 and changes nothing; one that answers 200  *)
(* leaves the target stored with activo and enLinea false and its other    *)
(* fields, and every other user, as they were; and no step of any request  *)
(* removes a user id.                                                      *)
C20_SoftDeleteOnly ==
  /\ [](\A a \in Actores : \A t \in 1..(Len(users) + 1) :
          LET r == deleteUser(a, t)
          IN /\ Len(r.users) = Len(users)
             /\ users[a].role # "superAdmin" =>
                  r.res.status = 403 /\ r.users = users
             /\ r.res.status = 200 =>
                  /\ ~r.users[t].activo
                  /\ ~r.users[t].enLinea
                  /\ r.users[t] =
                       [users[t] EXCEPT !.activo = FALSE, !.enLinea = FALSE]
                  /\ \A i \in Ids : i # t => r.users[i] = users[i])
  /\ [][Len(users') >= Len(users)]_vars

(* An admin has been deleted: it is stored, inactive and off line, while   *)
(* another user is still on line.                                          *)
C20_Witness ==
  /\ res.op = "deleteUser"
  /\ res.status = 200
  /\ \E t \in Ids : \E i \in Ids :
       /\ users[t].role = "admin"
       /\ ~users[t].activo
       /\ ~users[t].enLinea
       /\ i # t
       /\ users[i].activo
       /\ users[i].enLinea


(***************************************************************************)
(* SpecCred: the bootstrap superAdmin, an admin of location 1 and a        *)
(* usuario whose locations and credential state are any that createUser    *)
(* and the login and password-recovery handlers can have stored; requests  *)
(* that reset passwords, toggle status and update with payloads naming     *)
(* credential fields.                                                      *)
(***************************************************************************)
NumPasswords == 2

MaxIntentos == 1

Passwords == 1..NumPasswords

StoredUsuario(locales, intentos, bloqueado, token) ==
  [NewUser(3, 1, "usuario", locales, First(locales))
     EXCEPT !.intentosFallidos = intentos,
            !.bloqueadoHasta = bloqueado,
            !.passwordResetToken = token,
            !.passwordResetExpires = token]

InitCred ==
  /\ \E s \in {<<>>, <<1>>, <<2>>} : \E n \in 0..MaxIntentos :
       \E b \in {NoValue, 1} : \E k \in {NoValue, 1} :
         users = <<crearSuperAdminInicial(1, 1), StoredAdmin(<<1>>, 1),
                   StoredUsuario(s, n, b, k)>>
  /\ res = [op |-> "none", status |-> 0, data |-> NoData]
  /\ auditoria = FALSE
  /\ enVuelo = {}

CredPayloads ==
  {NoPayload}
    \cup {[NoPayload EXCEPT !.password = <<w>>] : w \in Passwords}
    \cup {[NoPayload EXCEPT !.intentosFallidos = <<0>>, !.bloqueadoHasta = <<v>>,
                            !.passwordResetToken = <<v>>,
                            !.passwordResetExpires = <<v>>] : v \in {NoValue, 1}}

NextCred ==
  \/ \E a \in Representantes : \E t \in 1..(Len(users) + 1) : \E w \in Passwords :
       ResetUserPassword(a, t, w)
  \/ \E a \in Representantes : \E t \in Ids : \E b \in BOOLEAN :
       ToggleUserStatus(a, t, b)
  \/ \E a \in Representantes : \E t \in Ids : \E p \in CredPayloads :
       UpdateUser(a, t, p)

SpecCred == InitCred /\ [][NextCred]_vars

Credentials(u) ==
  <<u.password, u.intentosFallidos, u.bloqueadoHasta, u.passwordResetToken,
    u.passwordResetExpires>>

(* C21: in every reachable state, resetUserPassword and toggleUserStatus   *)
(* of an admin actor answer 200 only for a usuario that shares a location  *)
(* with the actor, and for an admin, a superAdmin or a usuario sharing no  *)
(* location answer 403 and leave every user as it was.                     *)
C21_AdminResetToggleScope ==
  \A a \in Actores : \A t \in Ids :
    users[a].role = "admin" =>
      LET manages ==
            /\ users[t].role = "usuario"
            /\ Range(users[t].locales) \cap Range(users[a].locales) # {}
      IN /\ \A w \in Passwords :
              LET r == resetUserPassword(a, t, w)
              IN /\ r.res.status = 200 => manages
                 /\ ~manages =>
                      /\ r.res.status = 403
                      /\ Credentials(r.users[t]) = Credentials(users[t])
                      /\ r.users = users
         /\ \A b \in BOOLEAN :
              LET r == toggleUserStatus(a, t, b)
              IN /\ r.res.status = 200 => manages
                 /\ ~manages =>
                      /\ r.res.status = 403
                      /\ r.users[t].activo = users[t].activo
                      /\ r.users[t].enLinea = users[t].enLinea
                      /\ r.users = users

(* An admin was refused the reset of a usuario outside its location whose  *)
(* failed-login count is still recorded.                                   *)
C21_Witness ==
  /\ res.op = "resetUserPassword"
  /\ res.status = 403
  /\ \E a \in Actores : \E t \in Ids :
       /\ users[a].role = "admin"
       /\ users[t].role = "usuario"
       /\ users[t].locales = <<2>>
       /\ users[t].intentosFallidos > 0
       /\ users[t].bloqueadoHasta # NoValue

(* C28: in every reachable state an updateUser request of any actor with   *)
(* any payload leaves the target's password, intentosFallidos,             *)
(* bloqueadoHasta, passwordResetToken and passwordResetExpires as they     *)
(* were, and a resetUserPassword that answers 200 leaves intentosFallidos  *)
(* 0 and bloqueadoHasta undefined; no step other than resetUserPassword    *)
(* changes a password.                                                     *)
C28_CredentialsOnlyByReset ==
  /\ [](\A a \in Actores : \A t \in Ids :
          /\ \A p \in CredPayloads :
               Credentials(updateUser(a, t, p).users[t]) = Credentials(users[t])
          /\ \A w \in Passwords :
               LET r == resetUserPassword(a, t, w)
               IN r.res.status = 200 =>
                    /\ r.users[t].password = w
                    /\ r.users[t].intentosFallidos = 0
                    /\ r.users[t].bloqueadoHasta = NoValue)
  /\ [][\A i \in Ids :
          users'[i].password # users[i].password
            => res'.op = "resetUserPassword"]_vars

(* A usuario's password has been reset to another one; its failed-login    *)
(* count and lock are cleared.                                             *)
C28_Witness ==
  /\ res.op = "resetUserPassword"
  /\ res.status = 200
  /\ \E t \in Ids :
       /\ users[t].role = "usuario"
       /\ users[t].password = 2
       /\ users[t].intentosFallidos = 0
       /\ users[t].bloqueadoHasta = NoValue
       /\ users[t].passwordResetToken # NoValue


(***************************************************************************)
(* SpecPage: from the empty store, superAdmins and usuarios are created,   *)
(* and superAdmin actors list users page by page, filtered by role.        *)
(* page or limit 0 stands for a text that parseInt does not turn into a    *)
(* positive number.                                                        *)
(***************************************************************************)
MaxUsersPage == 5

MaxPage == 3

MaxLimit == 2

PageBodies ==
  [email : {FreshEmail}, password : {1}, role : {<<>>}, locales : {<<>>}]

PageQueries ==
  [page : Opt(0..MaxPage), limit : Opt(0..MaxLimit),
   role : {<<>>, <<"usuario">>},
   activo : {<<>>}, search : {<<>>}, local : {<<>>}]

NextPage ==
  \/ Len(users) < MaxUsersPage /\ \E b \in InitBodies : InitSuperAdmin(b)
  \/ /\ Len(users) < MaxUsersPage
     /\ \E a \in Representantes : \E b \in PageBodies : CreateUser(a, b)
  \/ \E a \in Representantes : \E q \in PageQueries : GetAllUsers(a, q)

SpecPage == Init /\ [][NextPage]_vars

(* The n-th of the ids of S in descending order.                           *)
NthNewest(S, n) == CHOOSE i \in S : Cardinality({j \in S : j > i}) = n - 1

MinOf(x, y) == IF x < y THEN x ELSE y

C24_InactiveIsOffline ==
  \A i \in Ids : ~users[i].activo => ~users[i].enLinea

(* C25: every user getAllUsers returns to an admin actor shares at least   *)
(* one location with that actor, whatever the actor's locales (the empty   *)
(* list included) and whatever the query.                                  *)
C25_AdminListShares ==
  \A a \in Actores : \A q \in Queries :
    users[a].role = "admin"
    => LET r == getAllUsers(a, q)
       IN \A k \in 1..Len(r.res.data.users) :
            SharesLocal(users[r.res.data.users[k]].locales, users[a].locales)

(* C26: in every state reachable by createUser, updateUser,                *)
(* assignLocalToAdmin and removeLocalFromAdmin, esAdministradorLocal is    *)
(* TRUE exactly for the users of role admin with a non-empty locales.      *)
C26_AdministradorLocalDerived ==
  \A i \in Ids :
    users[i].esAdministradorLocal
      <=> (users[i].role = "admin" /\ users[i].locales # <<>>)

(* C29: updateUser on an id no stored user has answers 404 and leaves the  *)
(* store unchanged, for every payload, role = superAdmin included.         *)
C29_UpdateAbsentNotFound ==
  [][\A a \in Actores : \A p \in CapPayloads :
       UpdateUser(a, Len(users) + 1, p)
       => res'.status = 404 /\ users' = users]_vars

(***************************************************************************)
(* SpecAudit: the audit references kept.  Every mutating handler, called   *)
(* by every actor, on a store of up to MaxInitAudit superAdmins made by    *)
(* initSuperAdmin and the admins and usuarios of location 1 they create.   *)
(***************************************************************************)
MaxUsersAudit == 3

MaxInitAudit == 2

InitAudit ==
  /\ users = <<>>
  /\ res = [op |-> "none", status |-> 0, data |-> NoData]
  /\ auditoria = TRUE
  /\ enVuelo = {}

AuditBodies ==
  [email : {FreshEmail}, password : {1}, role : {<<>>, <<"admin">>},
   locales : {<<<<1>>>>}]

AuditPayloads ==
  {[NoPayload EXCEPT !.activo = <<TRUE>>],
   [NoPayload EXCEPT !.creadoPor = <<1>>]}

NextAudit ==
  \/ Len(users) < MaxInitAudit /\ \E b \in InitBodies : InitSuperAdmin(b)
  \/ /\ Len(users) < MaxUsersAudit
     /\ \E a \in Actores : \E b \in AuditBodies : CreateUser(a, b)
  \/ \E a \in Actores : \E t \in Ids : \E p \in AuditPayloads :
       UpdateUser(a, t, p)
  \/ \E a \in Actores : \E t \in Ids : DeleteUser(a, t)
  \/ \E a \in Actores : \E t \in Ids : ResetUserPassword(a, t, 1)
  \/ \E a \in Actores : \E t \in Ids : \E b \in BOOLEAN :
       ToggleUserStatus(a, t, b)
  \/ \E t \in Ids : \E l \in 1..2 : AssignLocalToAdmin(t, l)
  \/ \E t \in Ids : \E l \in 1..2 : RemoveLocalFromAdmin(t, l)
  \/ \E t \in Ids : \E l \in 1..2 : SetAdminPrimaryLocal(t, l)

SpecAudit == InitAudit /\ [][NextAudit]_vars

(* C27: every successful createUser, updateUser, deleteUser,               *)
(* resetUserPassword, toggleUserStatus, assignLocalToAdmin,                *)
(* removeLocalFromAdmin and setAdminPrimaryLocal leaves the target's       *)
(* ultimaModificacion.usuario equal to the id of the actor that sent the   *)
(* request, and no step changes the creadoPor of a stored user.            *)
C27_AuditTrail ==
  [][/\ \A a \in Actores : \A b \in AuditBodies :
          CreateUser(a, b) /\ res'.status = 201
          => users'[Len(users')].ultimaModificacion = <<a>>
     /\ \A a \in Actores : \A t \in Ids :
          /\ \/ \E p \in AuditPayloads : UpdateUser(a, t, p)
             \/ DeleteUser(a, t)
             \/ ResetUserPassword(a, t, 1)
             \/ \E b \in BOOLEAN : ToggleUserStatus(a, t, b)
          /\ res'.status = 200
          => users'[t].ultimaModificacion = <<a>>
     /\ \A a \in Actores : \A t \in Ids : \A l \in 1..2 :
          /\ users[a].role = "superAdmin"
          /\ \/ AssignLocalToAdmin(t, l)
             \/ RemoveLocalFromAdmin(t, l)
             \/ SetAdminPrimaryLocal(t, l)
          /\ res'.status = 200
          => users'[t].ultimaModificacion = <<a>>
     /\ \A i \in Ids : users'[i].creadoPor = users[i].creadoPor]_vars

(***************************************************************************)
(* Handlers interleaved.  Every await of a handler is a point where        *)
(* another request may run.  A request is modelled in two steps: the       *)
(* reads and checks the handler makes before it writes, taken together on  *)
(* the store of that moment (the _Read actions: the request is answered at *)
(* once when a check rejects it, and is in flight otherwise), and its      *)
(* write on the store of a later moment (the _Save, _Update and _Create    *)
(* actions).  Every behaviour of these actions is an interleaving of the   *)
(* handlers' store operations in which the reads of one request happen to  *)
(* be adjacent.                                                            *)
(*                                                                         *)
(* A request in flight keeps what its write uses: the document it loaded   *)
(* or built (`user`), `activo` and the fields to $set (`p`).               *)
(***************************************************************************)
Peticion(op, a, t, activo, p, user) ==
  [op |-> op, a |-> a, t |-> t, activo |-> activo, p |-> p, user |-> user]

(* The number of requests in flight at a time.                             *)
MaxEnVuelo == 2

Answer(op, status) == [op |-> op, status |-> status, data |-> NoData]

(* document.save(): the paths whose value the handler changed on the       *)
(* loaded document are written, the others are left as stored.             *)
Save_NothingWritten(user, loaded, activo) == user

Save(user, loaded, activo) ==
  [user EXCEPT !.activo = IF loaded.activo # activo THEN activo ELSE @,
               !.enLinea = IF ~activo /\ loaded.enLinea THEN FALSE ELSE @]

ToggleUserStatus_Read(a, t, activo) ==
  /\ a \in Actores
  /\ LET r == toggleUserStatus(a, t, activo)
     IN IF r.res.status = 200
        THEN /\ enVuelo' = enVuelo \cup
                  {Peticion("toggleUserStatus", a, t, activo, NoPayload,
                            users[t])}
             /\ UNCHANGED <<users, res, auditoria>>
        ELSE /\ res' = r.res
             /\ UNCHANGED <<users, auditoria, enVuelo>>

ToggleUserStatus_Save(k) ==
  /\ k \in enVuelo
  /\ k.op = "toggleUserStatus"
  /\ users' = [users EXCEPT ![k.t] =
                 Modificado(Save(users[k.t], k.user, k.activo), k.a)]
  /\ res' = Answer("toggleUserStatus", 200)
  /\ enVuelo' = enVuelo \ {k}
  /\ UNCHANGED auditoria

DeleteUser_Read(a, t) ==
  /\ a \in Actores
  /\ LET r == deleteUser(a, t)
     IN IF r.res.status = 200
        THEN /\ enVuelo' = enVuelo \cup
                  {Peticion("deleteUser", a, t, FALSE, NoPayload, users[t])}
             /\ UNCHANGED <<users, res, auditoria>>
        ELSE /\ res' = r.res
             /\ UNCHANGED <<users, auditoria, enVuelo>>

(* User.findByIdAndUpdate(userId, { activo: false, enLinea: false, ... }). *)
DeleteUser_Update(k) ==
  /\ k \in enVuelo
  /\ k.op = "deleteUser"
  /\ users' = [users EXCEPT ![k.t] = Modificado(SoftDelete(users[k.t]), k.a)]
  /\ res' = Answer("deleteUser", 200)
  /\ enVuelo' = enVuelo \ {k}
  /\ UNCHANGED auditoria

(* User.create(userData): the unique index on email is checked against the *)
(* store of the moment of the write.                                       *)
Create(k, op) ==
  /\ k \in enVuelo
  /\ k.op = op
  /\ IF UniqueEmailRejects(0, k.user.email)
     THEN users' = users /\ res' = Answer(op, 500)
     ELSE users' = Append(users, k.user) /\ res' = Answer(op, 201)
  /\ enVuelo' = enVuelo \ {k}
  /\ UNCHANGED auditoria

CreateUser_Read(a, body) ==
  /\ a \in Actores
  /\ LET r == createUser(a, body)
     IN IF r.res.status = 201
        THEN /\ enVuelo' = enVuelo \cup
                  {Peticion("createUser", a, 0, TRUE, NoPayload,
                            r.users[Len(r.users)])}
             /\ UNCHANGED <<users, res, auditoria>>
        ELSE /\ res' = r.res
             /\ UNCHANGED <<users, auditoria, enVuelo>>

CreateUser_Create(k) == Create(k, "createUser")

InitSuperAdmin_Read(body) ==
  LET r == initSuperAdmin(body)
  IN IF r.res.status = 201
     THEN /\ enVuelo' = enVuelo \cup
               {Peticion("initSuperAdmin", 0, 0, TRUE, NoPayload,
                         r.users[Len(r.users)])}
          /\ UNCHANGED <<users, res, auditoria>>
     ELSE /\ res' = r.res
          /\ UNCHANGED <<users, auditoria, enVuelo>>

InitSuperAdmin_Create(k) == Create(k, "initSuperAdmin")

(* updateData as updateUser hands it to findByIdAndUpdate.                 *)
UpdateData(a, p0) ==
  StripCredentials(IF users[a].role = "admin" THEN StripForAdmin(p0) ELSE p0)

UpdateUser_Read(a, t, p0) ==
  /\ a \in Actores
  /\ LET r == updateUser(a, t, p0)
     IN IF r.res.status = 200
        THEN /\ enVuelo' = enVuelo \cup
                  {Peticion("updateUser", a, t, TRUE, UpdateData(a, p0),
                            users[t])}
             /\ UNCHANGED <<users, res, auditoria>>
        ELSE /\ res' = r.res
             /\ UNCHANGED <<users, auditoria, enVuelo>>

(* User.findByIdAndUpdate(userId, { $set: updateData }): esAdministrador-  *)
(* Local and localPrincipal were derived from the loaded document.         *)
UpdateUser_Update(k) ==
  /\ k \in enVuelo
  /\ k.op = "updateUser"
  /\ IF k.p.email # <<>> /\ UniqueEmailRejects(k.t, k.p.email[1])
     THEN users' = users /\ res' = Answer("updateUser", 500)
     ELSE /\ users' =
               [users EXCEPT ![k.t] =
                  Modificado(
                    SetFields(users[k.t], k.p,
                              MarksAdministradorLocal(k.p, k.user),
                              IF HasLocales(k.p.locales)
                              THEN <<k.p.locales[1][1]>>
                              ELSE k.p.localPrincipal), k.a)]
          /\ res' = Answer("updateUser", 200)
  /\ enVuelo' = enVuelo \ {k}
  /\ UNCHANGED auditoria

(***************************************************************************)
(* SpecRace: toggleUserStatus and deleteUser interleaved, on a store of    *)
(* two active superAdmins and two active admins of location 1.             *)
(***************************************************************************)
InitRace ==
  /\ users = <<crearSuperAdminInicial(1, 1),
               NewUser(2, 1, "superAdmin", <<>>, NoLocal),
               [StoredAdmin(<<1>>, 1) EXCEPT !.email = 3],
               [StoredAdmin(<<1>>, 1) EXCEPT !.email = 4]>>
  /\ res = [op |-> "none", status |-> 0, data |-> NoData]
  /\ auditoria = FALSE
  /\ enVuelo = {}

NextRace ==
  \/ /\ Cardinality(enVuelo) < MaxEnVuelo
     /\ \E a \in Representantes : \E t \in Ids : \E b \in BOOLEAN :
          ToggleUserStatus_Read(a, t, b)
  \/ \E k \in enVuelo : ToggleUserStatus_Save(k)
  \/ /\ Cardinality(enVuelo) < MaxEnVuelo
     /\ \E a \in Representantes : \E t \in Ids : DeleteUser_Read(a, t)
  \/ \E k \in enVuelo : DeleteUser_Update(k)

SpecRace == InitRace /\ [][NextRace]_vars

(* C23: a deactivation (toggleUserStatus with activo = FALSE of a user it  *)
(* loaded active, or deleteUser) that passed its count guard is not        *)
(* checked again when it writes: the write answers 200 and leaves the      *)
(* target inactive whatever was written since the guard, so two            *)
(* deactivations of the two active superAdmins, or of the two active       *)
(* admins of a location, that both read the count before either writes     *)
(* both succeed.                                                           *)
C23_DeactivationRace ==
  [][\A k \in enVuelo :
       \/ ToggleUserStatus_Save(k) /\ ~k.activo /\ k.user.activo
       \/ DeleteUser_Update(k)
       => res'.status = 200 /\ ~users'[k.t].activo]_vars

(* Both races run to their end: no superAdmin is active and location 1 has *)
(* no active admin.                                                        *)
C23_Witness ==
  /\ ActiveSuperAdminsCount = 0
  /\ AdminsCountLocales(1) = 0
  /\ \E i \in Ids : users[i].role = "admin" /\ Includes(users[i].locales, 1)
  /\ enVuelo = {}
  /\ res.status = 200

(***************************************************************************)
(* SpecCapRace: createUser, initSuperAdmin and updateUser interleaved, all *)
(* asking for role superAdmin, on a store of three superAdmins and a       *)
(* usuario.                                                                *)
(***************************************************************************)
InitCapRace ==
  /\ users = <<crearSuperAdminInicial(1, 1),
               NewUser(2, 1, "superAdmin", <<>>, NoLocal),
               NewUser(3, 1, "superAdmin", <<>>, NoLocal),
               NewUser(4, 1, "usuario", <<>>, NoLocal)>>
  /\ res = [op |-> "none", status |-> 0, data |-> NoData]
  /\ auditoria = FALSE
  /\ enVuelo = {}

(* Emails no stored document has, one for each request in flight.          *)
FreshEmails == (Len(users) + 1)..(Len(users) + MaxEnVuelo)

CapRaceBodies ==
  [email : FreshEmails, password : {1}, role : {<<"superAdmin">>},
   locales : {<<>>}]

CapRaceInitBodies == [email : FreshEmails, password : {1}]

CapRacePayloads == {[NoPayload EXCEPT !.role = <<"superAdmin">>]}

NextCapRace ==
  \/ /\ Cardinality(enVuelo) < MaxEnVuelo
     /\ \E a \in Representantes : \E b \in CapRaceBodies :
          CreateUser_Read(a, b)
  \/ \E k \in enVuelo : CreateUser_Create(k)
  \/ /\ Cardinality(enVuelo) < MaxEnVuelo
     /\ \E b \in CapRaceInitBodies : InitSuperAdmin_Read(b)
  \/ \E k \in enVuelo : InitSuperAdmin_Create(k)
  \/ /\ Cardinality(enVuelo) < MaxEnVuelo
     /\ \E a \in Representantes : \E t \in Ids : \E p \in CapRacePayloads :
          UpdateUser_Read(a, t, p)
  \/ \E k \in enVuelo : UpdateUser_Update(k)

SpecCapRace == InitCapRace /\ [][NextCapRace]_vars

(* C30: with createUser, initSuperAdmin and updateUser interleaved, no     *)
(* reachable state holds more than MAX_SUPER_ADMINS users of role          *)
(* superAdmin.                                                             *)
C30_CapUnderInterleaving ==
  Cardinality({i \in Ids : users[i].role = "superAdmin"}) <= MAX_SUPER_ADMINS

====
